---------------------------- MODULE Spec2Model ----------------------------
(***************************************************************************)
(* The live-connection hub of the chat backend (package websocket):        *)
(*   Hub     src/unnamed/part_001  (registry, Register/Unregister intake,  *)
(*           presence, BroadcastToUser/Users/Group)                        *)
(*   Client  src/server/internal/websocket/client.go (ReadPump, WritePump, *)
(*           typing relay, SendMessage)                                    *)
(*   events  src/server/internal/websocket/events.go                       *)
(*   handler src/server/internal/handlers/chat.go (WebSocketHandler)       *)
(*                                                                         *)
(* Goroutines: the Hub's Run loop, and per connection the handler /        *)
(* ReadPump goroutine and the WritePump goroutine.  Callers of the Hub's   *)
(* broadcast API and of Client.SendMessage are the environment.  A Go      *)
(* panic (close of a closed channel, send on a closed channel) is not      *)
(* recovered anywhere, so it ends the process: no action is enabled after  *)
(* it.                                                                     *)
(***************************************************************************)
EXTENDS Naturals, Sequences, FiniteSets, TLC

(* ------------------------------ bounds -------------------------------- *)

\* Capacity of a Client's Send channel.  client.go:27 makes it 256; the
\* model keeps the channel semantics and scales the capacity.
SendCap == 2

\* Number of events the environment causes in one run: a connection opened,
\* a contact row added, a call of the broadcast API or of SendMessage, an
\* inbound frame, and every failure (a peer that goes away or stays silent
\* past the read deadline, a socket write that fails, a store statement that
\* fails).
MaxEvents == 4

(* --------------------------- the population --------------------------- *)

Users == {"A", "B", "C"}

\* Connections (one *Client each) and the user id the auth middleware put
\* on each (chat.go:193); a1 and a2 are two connections of user A.
Conns == {"a1", "a2", "b1"}

UserOf(c) == IF c \in {"a1", "a2"} THEN "A" ELSE "B"

NoClient == "nil"

Groups == {"g1", "g2"}

\* group_members rows (user_id per group_id); the primary key
\* (group_id, user_id) makes the members of a group a set.
InitialMembers(g) == IF g = "g1" THEN {"A", "B"} ELSE {"A"}

(* ------------------------------ events -------------------------------- *)

EventTypingStart == "typing_start"
EventTypingStop == "typing_stop"
EventUserOnline == "user_online"
EventUserOffline == "user_offline"
EventGroupMessageReceived == "group_message_received"
EventGroupMessageSent == "group_message_sent"

\* TypingPayload{UserID, ChatID, GroupID}
TypingPayload(userID, chatID, groupID) ==
    [userId |-> userID, chatId |-> chatID, groupId |-> groupID]

\* PresencePayload{UserID, IsOnline}
PresencePayload(userID, isOnline) == [userId |-> userID, isOnline |-> isOnline]

\* WSMessage{Type, Payload}; the timestamp is not modelled.
WSMessage(type, payload) == [type |-> type, payload |-> payload]

\* A payload json.Marshal cannot encode (Payload is interface{}).
BadPayload == [unencodable |-> TRUE]

\* json.Marshal(message): the encoded bytes, or an error.
Marshal(message) ==
    IF message.payload = BadPayload
    THEN [err |-> TRUE, data |-> <<>>]
    ELSE [err |-> FALSE, data |-> <<message.type, message.payload>>]

\* Messages the environment passes to the broadcast API and to SendMessage.
GroupMessagePayload(groupID, senderID) == [groupId |-> groupID, senderId |-> senderID]

\* ErrorPayload{Code}
ErrorPayload(code) == [code |-> code]

Unencodable == WSMessage("error", BadPayload)

\* The messages each operation is called with.  SendGroupMessage
\* (group.go:733-761) passes a group_message_received message to
\* BroadcastToGroup and a group_message_sent confirmation to BroadcastToUser;
\* BroadcastToUsers is called with typing messages; SendMessage carries a
\* server-generated event.
ToUserMessages ==
    { WSMessage(EventGroupMessageSent, GroupMessagePayload("g1", "A")), Unencodable }

ToGroupMessages ==
    { WSMessage(EventGroupMessageReceived, GroupMessagePayload("g1", "A")), Unencodable }

ToUsersMessages ==
    { WSMessage(EventTypingStop, TypingPayload("C", "B", "")) }

SelfMessages == { WSMessage("error", ErrorPayload("E1")) }

(* ------------------------------- state -------------------------------- *)

VARIABLES
    Clients,    \* Hub.Clients: user id -> *Client (NoClient: no entry)
    mu,         \* Hub.mu: "free", or "hub" while the Hub holds Lock()
    hubPc,      \* the Hub goroutine: "select" | "presence" | "blocked"
    hubRows,    \* contact rows broadcastPresence has still to visit
    hubMsg,     \* the presence bytes broadcastPresence marshalled
    Send,       \* Client.Send: the buffered messages of each connection
    closes,     \* number of close(c.Send) executed on each connection
    pc,         \* handler/ReadPump goroutine of each connection
    wp,         \* WritePump goroutine of each connection
    selfUnreg,  \* a SendMessage caller is blocked in Hub.Unregister <- c
    sigs,       \* Unregister signals sent so far for each connection
    online,     \* users.is_online in the store
    contacts,   \* rows of the contacts table: <<user_id, contact_id>>
    members,    \* rows of the group_members table: group id -> user ids
    panicked,   \* "no", or the runtime panic that ended the process
    mainPc,     \* main: "start" | "routes" | "listening"
    WSHub,      \* handlers.WSHub: NoHub (nil) or "hub"
    written,    \* the last frame WritePump handed to the socket
    stats,      \* the last response of GetWebSocketStats
    events      \* number of environment events so far

vars == <<Clients, mu, hubPc, hubRows, hubMsg, Send, closes, pc, wp,
          selfUnreg, sigs, online, contacts, members, panicked, mainPc,
          WSHub, written, stats, events>>

NoPanic == "no"
DoubleClose == "close of closed channel"
SendOnClosed == "send on closed channel"
NilHub == "nil pointer dereference"

\* The zero value of `var WSHub *ws.Hub` (chat.go:165-168).
NoHub == "nil"

\* Frames on the socket: nothing written yet, and the close frame
\* WriteMessage(websocket.CloseMessage, []byte{}) of client.go:78.
NoFrame == <<>>
CloseFrame == <<"close">>

\* The channel c.Send is closed.
Closed(c) == closes[c] > 0

\* The socket of a connection is open until one of its pumps closes it
\* (client.go:35, client.go:70).
SocketOpen(c) == pc[c] \notin {"closed", "aborted"} /\ wp[c] # "done"

\* A roster remembered from the first query instead of read from the store:
\* the fault C20 excludes.
GroupMembers_Cached(g) == InitialMembers(g)

\* SELECT user_id FROM group_members WHERE group_id = $1 (part_001:200-203):
\* the members of a group as the store has them now.
GroupMembers(g) == members[g]

\* Rows a user may add to the contacts table (contact.go:103); the table's
\* CHECK (user_id != contact_id) keeps a user out of its own contacts.
ContactRows == {<<"A", "B">>}

\* The contacts of a user: the UNION of both directions of the table.
ContactsOf(userID) ==
    {r[1] : r \in {q \in contacts : q[2] = userID}}
        \cup {r[2] : r \in {q \in contacts : q[1] = userID}}

\* The responses of GetWebSocketStats (chat.go:208-223): none yet, 503 with
\* the Hub missing, or 200 with onlineUsers and userIds.
StatsResponse(status, count, ids) ==
    [status |-> status, onlineUsers |-> count, userIds |-> ids]

NoStats == StatsResponse(0, 0, <<>>)

\* Hub, connections and store before any request.
Fresh ==
    /\ Clients = [u \in Users |-> NoClient]
    /\ mu = "free"
    /\ hubPc = "select"
    /\ hubRows = {}
    /\ hubMsg = <<>>
    /\ Send = [c \in Conns |-> <<>>]
    /\ closes = [c \in Conns |-> 0]
    /\ pc = [c \in Conns |-> "init"]
    /\ wp = [c \in Conns |-> "idle"]
    /\ selfUnreg = [c \in Conns |-> FALSE]
    /\ sigs = [c \in Conns |-> [ReadPump |-> 0, WritePump |-> 0, SendMessage |-> 0]]
    /\ online = [u \in Users |-> FALSE]
    /\ contacts = {}
    /\ members = [g \in Groups |-> InitialMembers(g)]
    /\ panicked = NoPanic
    /\ written = [c \in Conns |-> NoFrame]
    /\ stats = NoStats
    /\ events = 0

\* A serving process whose Hub InitWebSocket (chat.go:171-175) has built:
\* WSHub = NewHub() with empty registry and the Run goroutine at its select.
Init ==
    /\ Fresh
    /\ mainPc = "listening"
    /\ WSHub = "hub"

\* The process as func main (part_000:16-53) starts it: WSHub holds its zero
\* value, and nothing is served before app.Listen.
InitMain ==
    /\ Fresh
    /\ mainPc = "start"
    /\ WSHub = NoHub


\* The process is serving: main has reached app.Listen and no goroutine has
\* panicked.
Alive == panicked = NoPanic /\ mainPc = "listening"

\* The step is, or injects, n environment events.
Count(n) ==
    /\ events + n <= MaxEvents
    /\ events' = events + n

\* The failures among the outcomes: the flags that are FALSE.
Failures(okFlags) == Cardinality({i \in DOMAIN okFlags : ~okFlags[i]})

(* ----------------------- the Hub's registry (part_001) ----------------- *)

\* The h.mu.Unlock() deferred by registerClient / unregisterClient, and the
\* return to Run's select.
HubReturn ==
    /\ mu' = "free"
    /\ hubPc' = "select"
    /\ hubRows' = {}
    /\ hubMsg' = <<>>

\* A presence message without `if !isOnline { message.Type =
\* EventUserOffline }`: the fault C38 excludes.
PresenceMessage_AlwaysOnline(userID, isOnline) ==
    WSMessage(EventUserOnline, PresencePayload(userID, isOnline))

\* The presence message built by broadcastPresence: EventUserOnline, turned
\* into EventUserOffline when !isOnline.
PresenceMessage(userID, isOnline) ==
    WSMessage(IF ~isOnline THEN EventUserOffline ELSE EventUserOnline,
              PresencePayload(userID, isOnline))

\* A broadcastPresence that addresses every user instead of the rows of the
\* contacts query: the fault C34 excludes.
broadcastPresence_Everyone(userID, isOnline, queryOk) ==
    IF ~queryOk
    THEN HubReturn
    ELSE /\ mu' = "hub"
         /\ hubPc' = "presence"
         /\ hubRows' = Users
         /\ hubMsg' = Marshal(PresenceMessage(userID, isOnline)).data

\* broadcastPresence up to its loop over the contact rows: the query (which
\* may fail: return) and the marshalled message.  It is only ever called by
\* registerClient and unregisterClient, which hold h.mu.Lock().
broadcastPresence(userID, isOnline, queryOk) ==
    IF ~queryOk \/ ContactsOf(userID) = {}
    THEN HubReturn
    ELSE /\ mu' = "hub"
         /\ hubPc' = "presence"
         /\ hubRows' = ContactsOf(userID)
         /\ hubMsg' = Marshal(PresenceMessage(userID, isOnline)).data

\* A registerClient that forgets `close(existing.Send)`: the fault C1 excludes.
CloseExisting_Skipped(client) == closes

\* `if existingClient, ok := h.Clients[client.ID]; ok { close(existingClient.Send) }`:
\* the close counts afterwards.
CloseExisting(client) ==
    IF Clients[UserOf(client)] # NoClient
    THEN [closes EXCEPT ![Clients[UserOf(client)]] = @ + 1]
    ELSE closes

\* A registerClient that undoes the registration and returns when the store
\* write fails: the fault C19 excludes.
registerClient_Rollback(client, dbOk, queryOk) ==
    /\ mu = "free"
    /\ closes' = CloseExisting(client)
    /\ IF \E c \in Conns : closes'[c] > 1
       THEN /\ panicked' = DoubleClose
            /\ UNCHANGED <<Clients, online, mu, hubPc, hubRows, hubMsg>>
       ELSE IF ~dbOk
       THEN /\ Clients' = [Clients EXCEPT ![UserOf(client)] = NoClient]
            /\ HubReturn
            /\ UNCHANGED <<online, panicked>>
       ELSE /\ Clients' = [Clients EXCEPT ![UserOf(client)] = client]
            /\ online' = [online EXCEPT ![UserOf(client)] = TRUE]
            /\ broadcastPresence(UserOf(client), TRUE, queryOk)
            /\ UNCHANGED panicked

\* registerClient, from Lock() to the loop of broadcastPresence.  Closing an
\* already closed channel panics before the map is written.
registerClient(client, dbOk, queryOk) ==
    /\ mu = "free"
    /\ closes' = CloseExisting(client)
    /\ IF \E c \in Conns : closes'[c] > 1
       THEN /\ panicked' = DoubleClose
            /\ UNCHANGED <<Clients, online, mu, hubPc, hubRows, hubMsg>>
       ELSE /\ Clients' = [Clients EXCEPT ![UserOf(client)] = client]
            /\ online' = IF dbOk THEN [online EXCEPT ![UserOf(client)] = TRUE]
                                 ELSE online
            /\ broadcastPresence(UserOf(client), TRUE, queryOk)
            /\ UNCHANGED panicked

\* `if _, ok := h.Clients[client.ID]; ok`: the test that guards the removal.
UnregisterFinds(client) == Clients[UserOf(client)] # NoClient

\* unregisterClient, from Lock() to the loop of broadcastPresence: the entry
\* is deleted, then client.Send is closed (a panic if it is closed already).
unregisterClient(client, dbOk, queryOk) ==
    /\ mu = "free"
    /\ IF UnregisterFinds(client)
       THEN /\ Clients' = [Clients EXCEPT ![UserOf(client)] = NoClient]
            /\ closes' = [closes EXCEPT ![client] = @ + 1]
            /\ IF Closed(client)
               THEN /\ panicked' = DoubleClose
                    /\ UNCHANGED <<online, mu, hubPc, hubRows, hubMsg>>
               ELSE /\ online' = IF dbOk
                                 THEN [online EXCEPT ![UserOf(client)] = FALSE]
                                 ELSE online
                    /\ broadcastPresence(UserOf(client), FALSE, queryOk)
                    /\ UNCHANGED panicked
       ELSE /\ HubReturn
            /\ UNCHANGED <<Clients, closes, online, panicked>>

\* Run, case client := <-h.Register.  The receive is the rendezvous with the
\* handler blocked in `WSHub.Register <- client` (chat.go:200), which then
\* starts WritePump and enters ReadPump.
HubRunRegister(c) ==
    /\ Alive
    /\ hubPc = "select"
    /\ pc[c] = "registering"
    /\ pc' = [pc EXCEPT ![c] = "reading"]
    /\ wp' = [wp EXCEPT ![c] = "running"]
    /\ \E dbOk, queryOk \in BOOLEAN :
         /\ Count(Failures(<<dbOk, queryOk>>))
         /\ registerClient(c, dbOk, queryOk)
    /\ UNCHANGED <<stats, mainPc, WSHub, written, Send, selfUnreg, sigs, contacts, members>>

\* Run, case client := <-h.Unregister, the sender being c's ReadPump in its
\* deferred function (client.go:34), which then closes the socket.
HubRunUnregister(c) ==
    /\ Alive
    /\ hubPc = "select"
    /\ pc[c] = "unregistering"
    /\ pc' = [pc EXCEPT ![c] = "closed"]
    /\ \E dbOk, queryOk \in BOOLEAN :
         /\ Count(Failures(<<dbOk, queryOk>>))
         /\ unregisterClient(c, dbOk, queryOk)
    /\ UNCHANGED <<stats, mainPc, WSHub, written, Send, wp, selfUnreg, sigs, contacts, members>>

\* Run, case client := <-h.Unregister, the sender being a SendMessage caller
\* (client.go:170), which then returns.
HubRunSelfUnregister(c) ==
    /\ Alive
    /\ hubPc = "select"
    /\ selfUnreg[c]
    /\ selfUnreg' = [selfUnreg EXCEPT ![c] = FALSE]
    /\ \E dbOk, queryOk \in BOOLEAN :
         /\ Count(Failures(<<dbOk, queryOk>>))
         /\ unregisterClient(c, dbOk, queryOk)
    /\ UNCHANGED <<stats, mainPc, WSHub, written, Send, pc, wp, sigs, contacts, members>>

\* Run, case client := <-h.Unregister, for a Client whose Unregister the Hub
\* has processed before: a second `hub.Unregister <- c` from another holder of
\* the Client (the channel is an exported field of Hub).
HubRunUnregisterAgain(c) ==
    /\ Alive
    /\ hubPc = "select"
    /\ pc[c] = "closed"
    /\ \E dbOk, queryOk \in BOOLEAN :
         /\ Count(1 + Failures(<<dbOk, queryOk>>))
         /\ unregisterClient(c, dbOk, queryOk)
    /\ UNCHANGED <<stats, mainPc, WSHub, written, Send, pc, wp, selfUnreg, sigs, contacts, members>>

\* A push onto a queue that takes every message whatever it already holds,
\* in place of the channel of fixed capacity: the fault C29 excludes.
TrySend_Unbounded(c, buf) ==
    IF Closed(c) THEN "panic" ELSE "sent"

\* The non-blocking `select { case client.Send <- data: default: }` on the
\* channel of connection c holding buf.
TrySend(c, buf) ==
    IF Closed(c) THEN "panic"
    ELSE IF Len(buf) < SendCap THEN "sent"
    ELSE "dropped"

\* One iteration of broadcastPresence's loop `for rows.Next()`: RLock(), the
\* push to the contact if it is in the registry, RUnlock().  sync.RWMutex is
\* not reentrant: RLock() waits for the writer to Unlock(), and the writer is
\* this goroutine, so the Hub parks for good.
HubPresenceRow ==
    /\ Alive
    /\ hubPc = "presence"
    /\ \E contactID \in hubRows :
         IF mu # "free"
         THEN /\ hubPc' = "blocked"
              /\ UNCHANGED <<mu, hubRows, hubMsg, Send, panicked>>
         ELSE /\ IF Clients[contactID] = NoClient
                 THEN UNCHANGED <<Send, panicked>>
                 ELSE LET r == TrySend(Clients[contactID], Send[Clients[contactID]])
                      IN /\ Send' = IF r = "sent"
                                    THEN [Send EXCEPT ![Clients[contactID]] = Append(@, hubMsg)]
                                    ELSE Send
                         /\ panicked' = IF r = "panic" THEN SendOnClosed ELSE panicked
              /\ IF hubRows = {contactID}
                 THEN HubReturn
                 ELSE /\ hubRows' = hubRows \ {contactID}
                      /\ UNCHANGED <<mu, hubPc, hubMsg>>
    /\ UNCHANGED <<stats, mainPc, WSHub, written, Clients, closes, pc, wp, selfUnreg, sigs, online, contacts, members, events>>

(* --------------------- connections (chat.go, client.go) ---------------- *)

\* `WSHub.Register <- client` with WSHub nil: the field access dereferences a
\* nil pointer and the handler panics.  The websocket middleware is not part
\* of the repository: either it recovers the panic and drops the connection,
\* or the panic ends the process.
NilRegister(c, recovered) ==
    IF recovered
    THEN pc' = [pc EXCEPT ![c] = "aborted"] /\ UNCHANGED panicked
    ELSE panicked' = NilHub /\ UNCHANGED pc

\* WebSocketHandler up to `WSHub.Register <- client`: NewClient, then the
\* handler blocks on the unbuffered Register channel.
Connect(c) ==
    /\ Alive
    /\ pc[c] = "init"
    /\ Count(1)
    /\ IF WSHub = NoHub
       THEN \E recovered \in BOOLEAN : NilRegister(c, recovered)
       ELSE pc' = [pc EXCEPT ![c] = "registering"] /\ UNCHANGED panicked
    /\ UNCHANGED <<stats, mainPc, WSHub, written, Clients, mu, hubPc, hubRows, hubMsg,
                   Send, closes, wp, selfUnreg, sigs, online, contacts, members>>

\* A ReadPump that runs, and may exit, while the handler is still inside
\* `WSHub.Register <- client`, as it would with the pumps started before the
\* registration: the fault C36 excludes.
ReadFail_Unregistered(c) ==
    /\ Alive
    /\ pc[c] \in {"registering", "reading"}
    /\ Count(Failures(<<~SocketOpen(c)>>))
    /\ pc' = [pc EXCEPT ![c] = "unregistering"]
    /\ sigs' = [sigs EXCEPT ![c].ReadPump = @ + 1]
    /\ UNCHANGED <<stats, mainPc, WSHub, written, Clients, mu, hubPc, hubRows,
                   hubMsg, Send, closes, wp, selfUnreg, online, contacts,
                   members, panicked>>

\* A ReadPump whose deferred function closes the socket without the
\* Unregister send before it: the fault C26 excludes.
ReadFail_Silent(c) ==
    /\ Alive
    /\ pc[c] = "reading"
    /\ Count(Failures(<<~SocketOpen(c)>>))
    /\ pc' = [pc EXCEPT ![c] = "closed"]
    /\ UNCHANGED <<stats, mainPc, WSHub, written, Clients, mu, hubPc, hubRows, hubMsg,
                   Send, closes, wp, selfUnreg, sigs, online, contacts, members,
                   panicked>>

\* ReadPump: ReadMessage returns an error (deadline, close frame, abrupt
\* close, or the socket closed by WritePump); the loop breaks and the
\* deferred function starts `c.Hub.Unregister <- c`, blocking until the Hub
\* receives.
ReadFail(c) ==
    /\ Alive
    /\ pc[c] = "reading"
    /\ Count(Failures(<<~SocketOpen(c)>>))
    /\ pc' = [pc EXCEPT ![c] = "unregistering"]
    /\ sigs' = [sigs EXCEPT ![c].ReadPump = @ + 1]
    /\ UNCHANGED <<stats, mainPc, WSHub, written, Clients, mu, hubPc, hubRows, hubMsg, Send, closes, wp,
                   selfUnreg, online, contacts, members, panicked>>

\* A WritePump whose deferred function also sends `c.Hub.Unregister <- c`, as
\* ReadPump's does: the fault C8 excludes.
WritePumpDefer_Signals(c) ==
    /\ wp' = [wp EXCEPT ![c] = "done"]
    /\ sigs' = [sigs EXCEPT ![c].WritePump = @ + 1]

\* WritePump's deferred function: ticker.Stop(); c.Conn.Close().  It sends
\* nothing to the Hub.
WritePumpDefer(c) ==
    /\ wp' = [wp EXCEPT ![c] = "done"]
    /\ sigs' = sigs

\* A WritePump that takes the newest buffered message instead of the oldest:
\* the fault C28 excludes.
WriteNext_Newest(c, writeOk) ==
    /\ Alive
    /\ wp[c] = "running"
    /\ Send[c] # <<>>
    /\ Send' = [Send EXCEPT ![c] = SubSeq(@, 1, Len(@) - 1)]
    /\ written' = [written EXCEPT ![c] = Send[c][Len(Send[c])]]
    /\ Count(Failures(<<writeOk>>))
    /\ IF writeOk THEN UNCHANGED <<wp, sigs>> ELSE WritePumpDefer(c)
    /\ UNCHANGED <<stats, mainPc, WSHub, Clients, mu, hubPc, hubRows, hubMsg, closes, pc,
                   selfUnreg, online, contacts, members, panicked>>

\* WritePump, case message, ok := <-c.Send with a message buffered (a closed
\* channel still yields its buffered messages): the write succeeds, or fails
\* and the pump returns.
WriteNext(c, writeOk) ==
    /\ Alive
    /\ wp[c] = "running"
    /\ Send[c] # <<>>
    /\ Send' = [Send EXCEPT ![c] = Tail(@)]
    /\ written' = [written EXCEPT ![c] = Head(Send[c])]
    /\ Count(Failures(<<writeOk>>))
    /\ IF writeOk THEN UNCHANGED <<wp, sigs>> ELSE WritePumpDefer(c)
    /\ UNCHANGED <<stats, mainPc, WSHub, Clients, mu, hubPc, hubRows, hubMsg, closes, pc,
                   selfUnreg, online, contacts, members, panicked>>

\* A WritePump that, finding its channel closed, discards what is buffered,
\* writes the close frame and returns: the fault C37 excludes.
WriteClosed_DropsBuffered(c) ==
    /\ Alive
    /\ wp[c] = "running"
    /\ Closed(c)
    /\ Send' = [Send EXCEPT ![c] = <<>>]
    /\ written' = [written EXCEPT ![c] = CloseFrame]
    /\ WritePumpDefer(c)
    /\ UNCHANGED <<stats, mainPc, WSHub, Clients, mu, hubPc, hubRows, hubMsg,
                   closes, pc, selfUnreg, online, contacts, members, panicked,
                   events>>

\* A WritePump that returns on !ok without writing the close frame: the fault
\* C27 excludes.
WriteClosed_NoCloseFrame(c) ==
    /\ Alive
    /\ wp[c] = "running"
    /\ Send[c] = <<>>
    /\ Closed(c)
    /\ WritePumpDefer(c)
    /\ UNCHANGED <<stats, mainPc, WSHub, written, Clients, mu, hubPc, hubRows, hubMsg,
                   Send, closes, pc, selfUnreg, online, contacts, members,
                   panicked, events>>

\* WritePump, case message, ok := <-c.Send with !ok: the channel is closed
\* and drained; a close frame is written and the pump returns.
WriteClosed(c) ==
    /\ Alive
    /\ wp[c] = "running"
    /\ Send[c] = <<>>
    /\ Closed(c)
    /\ written' = [written EXCEPT ![c] = CloseFrame]
    /\ WritePumpDefer(c)
    /\ UNCHANGED <<stats, mainPc, WSHub, Clients, mu, hubPc, hubRows, hubMsg, Send, closes, pc,
                   selfUnreg, online, contacts, members, panicked, events>>

\* WritePump, case <-ticker.C with a failing ping write: the pump returns.
\* (A ping that is written changes nothing.)
PingFail(c) ==
    /\ Alive
    /\ wp[c] = "running"
    /\ Count(1)
    /\ WritePumpDefer(c)
    /\ UNCHANGED <<stats, mainPc, WSHub, written, Clients, mu, hubPc, hubRows, hubMsg, Send, closes, pc,
                   selfUnreg, online, contacts, members, panicked>>

(* ---------------------- the broadcast API (part_001) ------------------- *)

\* The loop body shared by the broadcasts, over the user ids in the order
\* visited: `if client, ok := h.Clients[userID]; ok { select { case
\* client.Send <- data: default: } }`.  The result is the buffers afterwards
\* and whether a send hit a closed channel, which panics and ends the loop.
RECURSIVE PushEach(_, _, _)
PushEach(userIDs, data, buffers) ==
    IF userIDs = <<>> THEN [send |-> buffers, panic |-> FALSE]
    ELSE LET client == Clients[Head(userIDs)]
         IN IF client = NoClient
            THEN PushEach(Tail(userIDs), data, buffers)
            ELSE IF TrySend(client, buffers[client]) = "panic"
            THEN [send |-> buffers, panic |-> TRUE]
            ELSE IF TrySend(client, buffers[client]) = "sent"
            THEN PushEach(Tail(userIDs), data,
                          [buffers EXCEPT ![client] = Append(@, data)])
            ELSE PushEach(Tail(userIDs), data, buffers)

NoPush == [send |-> Send, panic |-> FALSE]

\* A BroadcastToUser whose push has no `default:` branch and so is not dropped
\* on a full buffer: the fault C5 excludes.
ToUser_IgnoresFull(userID, message) ==
    IF Clients[userID] = NoClient \/ Marshal(message).err
    THEN NoPush
    ELSE [send  |-> [Send EXCEPT ![Clients[userID]] = Append(@, Marshal(message).data)],
          panic |-> Closed(Clients[userID])]

\* BroadcastToUser: the message is marshalled only when the user has an entry.
ToUser(userID, message) ==
    IF Clients[userID] = NoClient \/ Marshal(message).err
    THEN NoPush
    ELSE PushEach(<<userID>>, Marshal(message).data, Send)

\* BroadcastToUsers: marshalled once, then every id of the slice in order.
ToUsers(userIDs, message) ==
    IF Marshal(message).err
    THEN NoPush
    ELSE PushEach(userIDs, Marshal(message).data, Send)

\* A BroadcastToGroup without `if userID == excludeUserID { continue }`: the
\* fault C6 excludes.
SkipSender_Nobody(rows, excludeUserID) == rows

\* `if userID == excludeUserID { continue }`
SkipSender(rows, excludeUserID) ==
    SelectSeq(rows, LAMBDA userID : userID # excludeUserID)

\* A BroadcastToGroup that, when the group_members query fails, goes on with
\* the in-memory state and pushes to every registry entry: the fault C32
\* excludes.
ToGroup_FallsBackToRegistry(rows, message, excludeUserID, queryOk) ==
    IF Marshal(message).err
    THEN NoPush
    ELSE PushEach(IF queryOk THEN SkipSender(rows, excludeUserID) ELSE <<"A", "B", "C">>,
                  Marshal(message).data, Send)

\* BroadcastToGroup: rows is the result of the group_members query in the
\* order the store returns it; a failed query or marshal returns at once.
ToGroup(rows, message, excludeUserID, queryOk) ==
    IF ~queryOk \/ Marshal(message).err
    THEN NoPush
    ELSE PushEach(SkipSender(rows, excludeUserID), Marshal(message).data, Send)

\* The orders in which a query may return a set of rows.
RowOrders(S) ==
    {s \in [1..Cardinality(S) -> S] : \A i, j \in 1..Cardinality(S) : s[i] = s[j] => i = j}

\* What the group_members query hands to the loop: the rows in some order,
\* or nothing when it failed or the group has no row.
QueryRows(groupID, queryOk) ==
    IF queryOk /\ groupID \in Groups THEN RowOrders(GroupMembers(groupID)) ELSE {<<>>}

\* The excludeUserID arguments passed to BroadcastToGroup.
Senders == {"A", "C", ""}

\* The effect of a broadcast on the state: the pushes, or the panic.
Deliver(result) ==
    /\ Send' = result.send
    /\ panicked' = IF result.panic THEN SendOnClosed ELSE panicked

\* Slices of user ids the callers of BroadcastToUsers pass.
UserLists == {<<>>, <<"C", "A">>, <<"B", "B">>}

\* A BroadcastToUser that reads the registry without h.mu.RLock(): the fault
\* C30 excludes.
BroadcastToUser_NoLock(userID, message) ==
    /\ Alive
    /\ Count(1)
    /\ UNCHANGED <<stats, mainPc, WSHub, written, Clients, mu, hubPc, hubRows, hubMsg,
                   closes, pc, wp, selfUnreg, sigs, online, contacts, members>>
    /\ Deliver(ToUser(userID, message))

\* A call of Hub.BroadcastToUser; RLock() waits while the Hub holds Lock().
BroadcastToUser(userID, message) ==
    /\ Alive
    /\ mu = "free"
    /\ Count(1)
    /\ UNCHANGED <<stats, mainPc, WSHub, written, Clients, mu, hubPc, hubRows, hubMsg, closes, pc, wp,
                   selfUnreg, sigs, online, contacts, members>>
    /\ Deliver(ToUser(userID, message))

\* A call of Hub.BroadcastToUsers.
BroadcastToUsers(userIDs, message) ==
    /\ Alive
    /\ mu = "free"
    /\ Count(1)
    /\ UNCHANGED <<stats, mainPc, WSHub, written, Clients, mu, hubPc, hubRows, hubMsg, closes, pc, wp,
                   selfUnreg, sigs, online, contacts, members>>
    /\ Deliver(ToUsers(userIDs, message))

\* A call of Hub.BroadcastToGroup.  The read lock is taken only after the
\* query and the marshal succeeded.
BroadcastToGroup(groupID, message, excludeUserID, queryOk, rows) ==
    /\ Alive
    /\ (queryOk /\ ~Marshal(message).err) => mu = "free"
    /\ Count(1 + Failures(<<queryOk>>))
    /\ UNCHANGED <<stats, mainPc, WSHub, written, Clients, mu, hubPc, hubRows, hubMsg, closes, pc, wp,
                   selfUnreg, sigs, online, contacts, members>>
    /\ Deliver(ToGroup(rows, message, excludeUserID, queryOk))

(* ----------------------- Client.SendMessage (client.go) ---------------- *)

\* SendMessage on a Client the Hub has been handed: the message is pushed;
\* on a full buffer the channel is closed and the caller blocks in
\* `c.Hub.Unregister <- c`; a closed channel panics.
SendMessage(c, msg) ==
    /\ Alive
    /\ pc[c] \notin {"init", "registering"}
    /\ IF Marshal(msg).err
       THEN UNCHANGED <<Send, closes, selfUnreg, sigs, panicked>>
       ELSE CASE TrySend(c, Send[c]) = "panic" ->
                   /\ panicked' = SendOnClosed
                   /\ UNCHANGED <<Send, closes, selfUnreg, sigs>>
              [] TrySend(c, Send[c]) = "sent" ->
                   /\ Send' = [Send EXCEPT ![c] = Append(@, Marshal(msg).data)]
                   /\ UNCHANGED <<closes, selfUnreg, sigs, panicked>>
              [] OTHER ->
                   /\ closes' = [closes EXCEPT ![c] = @ + 1]
                   /\ selfUnreg' = [selfUnreg EXCEPT ![c] = TRUE]
                   /\ sigs' = [sigs EXCEPT ![c].SendMessage = @ + 1]
                   /\ UNCHANGED <<Send, panicked>>
    /\ Count(1)
    /\ UNCHANGED <<stats, mainPc, WSHub, written, Clients, mu, hubPc, hubRows, hubMsg, pc, wp, online, contacts, members>>

(* ------------------------ inbound frames (client.go) ------------------- *)

\* Inbound frames: the event type, and the chatId / groupId / userId keys of
\* the payload map ("" when absent).  "malformed" is a frame json.Unmarshal
\* rejects.
Frame(type, chatID, groupID, userID) ==
    [type |-> type, chatId |-> chatID, groupId |-> groupID, userId |-> userID]

Frames ==
    { Frame(EventTypingStart, "B", "", ""),
      Frame(EventTypingStart, "B", "", "C"),
      Frame(EventTypingStop, "A", "g1", ""),
      Frame(EventTypingStop, "", "", ""),
      Frame("message_sent", "B", "g1", ""),
      Frame("malformed", "", "", "") }

\* Typing handlers that take the user id from the frame when it carries one:
\* the fault C16 excludes.
TypingMessage_TrustsWire(c, frame) ==
    WSMessage(frame.type,
              TypingPayload(IF frame.userId # "" THEN frame.userId ELSE UserOf(c),
                            frame.chatId, frame.groupId))

\* handleTypingStart / handleTypingStop: the message relayed, its user id
\* taken from the Client.
TypingMessage(c, frame) ==
    WSMessage(frame.type, TypingPayload(UserOf(c), frame.chatId, frame.groupId))

\* A handleIncomingMessage without the switch on msg.Type, which relays every
\* decoded frame: the fault C17 excludes.
Relay_AnyType(c, frame, queryOk, rows) ==
    IF frame.groupId # ""
    THEN ToGroup(rows, TypingMessage(c, frame), UserOf(c), queryOk)
    ELSE IF frame.chatId # ""
    THEN ToUsers(<<frame.chatId>>, TypingMessage(c, frame))
    ELSE NoPush

\* Typing handlers that test chatID before groupID: the fault C15 excludes.
Relay_ChatFirst(c, frame, queryOk, rows) ==
    IF frame.type \notin {EventTypingStart, EventTypingStop} THEN NoPush
    ELSE IF frame.chatId # ""
    THEN ToUsers(<<frame.chatId>>, TypingMessage(c, frame))
    ELSE IF frame.groupId # ""
    THEN ToGroup(rows, TypingMessage(c, frame), UserOf(c), queryOk)
    ELSE NoPush

\* handleIncomingMessage after a successful json.Unmarshal: the typing
\* events are relayed to the group, else to the chat peer; every other type
\* is logged.
Relay(c, frame, queryOk, rows) ==
    IF frame.type \notin {EventTypingStart, EventTypingStop} THEN NoPush
    ELSE IF frame.groupId # ""
    THEN ToGroup(rows, TypingMessage(c, frame), UserOf(c), queryOk)
    ELSE IF frame.chatId # ""
    THEN ToUsers(<<frame.chatId>>, TypingMessage(c, frame))
    ELSE NoPush

\* The frame makes the relay take the Hub's read lock.
RelayLocks(frame, queryOk) ==
    /\ frame.type \in {EventTypingStart, EventTypingStop}
    /\ \/ frame.groupId # "" /\ queryOk
       \/ frame.groupId = "" /\ frame.chatId # ""

\* ReadPump: ReadMessage returns a frame, which is decoded and handled; the
\* loop then reads on.
Inbound(c, frame, queryOk, rows) ==
    /\ Alive
    /\ pc[c] = "reading"
    /\ SocketOpen(c)
    /\ RelayLocks(frame, queryOk) => mu = "free"
    /\ Deliver(Relay(c, frame, queryOk, rows))
    /\ Count(1 + Failures(<<queryOk>>))
    /\ UNCHANGED <<stats, mainPc, WSHub, written, Clients, mu, hubPc, hubRows, hubMsg, closes, pc, wp,
                   selfUnreg, sigs, online, contacts, members>>

(* ----------------------------- the store ------------------------------- *)

\* AddContact (contact.go:103): a row is inserted in the contacts table.
AddContact(row) ==
    /\ Alive
    /\ row \notin contacts
    /\ contacts' = contacts \cup {row}
    /\ Count(1)
    /\ UNCHANGED <<stats, mainPc, WSHub, written, Clients, mu, hubPc, hubRows, hubMsg, Send, closes, pc, wp,
                   selfUnreg, sigs, online, members, panicked>>

\* AddGroupMembers (group.go:451), called by a member of the group, for one
\* user id that is not a member yet: INSERT INTO group_members.
AddGroupMembers(groupID, memberID) ==
    /\ Alive
    /\ members[groupID] # {}
    /\ memberID \notin members[groupID]
    /\ members' = [members EXCEPT ![groupID] = @ \cup {memberID}]
    /\ Count(1)
    /\ UNCHANGED <<stats, mainPc, WSHub, written, Clients, mu, hubPc, hubRows, hubMsg, Send, closes, pc, wp,
                   selfUnreg, sigs, online, contacts, panicked>>

\* RemoveGroupMember (group.go:527), and LeaveGroup (group.go:578) for the
\* caller itself: DELETE FROM group_members.
RemoveGroupMember(groupID, memberID) ==
    /\ Alive
    /\ memberID \in members[groupID]
    /\ members' = [members EXCEPT ![groupID] = @ \ {memberID}]
    /\ Count(1)
    /\ UNCHANGED <<stats, mainPc, WSHub, written, Clients, mu, hubPc, hubRows, hubMsg, Send, closes, pc, wp,
                   selfUnreg, sigs, online, contacts, panicked>>

(* -------------------------- the specification -------------------------- *)

Next ==
    \/ \E c \in Conns : Connect(c)
    \/ \E c \in Conns : HubRunRegister(c)
    \/ \E c \in Conns : HubRunUnregister(c)
    \/ \E c \in Conns : HubRunSelfUnregister(c)
    \/ HubPresenceRow
    \/ \E c \in Conns : ReadFail(c)
    \/ \E c \in Conns, writeOk \in BOOLEAN : WriteNext(c, writeOk)
    \/ \E c \in Conns : WriteClosed(c)
    \/ \E c \in Conns : PingFail(c)
    \/ \E u \in Users, m \in ToUserMessages : BroadcastToUser(u, m)
    \/ \E ids \in UserLists, m \in ToUsersMessages : BroadcastToUsers(ids, m)
    \/ \E g \in Groups, m \in ToGroupMessages, x \in Senders, queryOk \in BOOLEAN :
         \E rows \in QueryRows(g, queryOk) :
            BroadcastToGroup(g, m, x, queryOk, rows)
    \/ \E c \in Conns, m \in SelfMessages : SendMessage(c, m)
    \/ \E c \in Conns, f \in Frames, queryOk \in BOOLEAN :
         \E rows \in QueryRows(f.groupId, queryOk) :
            Inbound(c, f, queryOk, rows)
    \/ \E row \in ContactRows : AddContact(row)

Spec == Init /\ [][Next]_vars

(* ------------------- the other writers of users.is_online -------------- *)

\* Login (part_002:209), after the password check: UPDATE users SET
\* is_online = true; an error of the statement is ignored.
Login(userID, dbOk) ==
    /\ Alive
    /\ Count(1 + Failures(<<dbOk>>))
    /\ online' = IF dbOk THEN [online EXCEPT ![userID] = TRUE] ELSE online
    /\ UNCHANGED <<stats, mainPc, WSHub, written, Clients, mu, hubPc, hubRows, hubMsg, Send, closes, pc, wp,
                   selfUnreg, sigs, contacts, members, panicked>>

\* Logout (part_002:298): UPDATE users SET is_online = false; an error of
\* the statement is ignored.
Logout(userID, dbOk) ==
    /\ Alive
    /\ Count(1 + Failures(<<dbOk>>))
    /\ online' = IF dbOk THEN [online EXCEPT ![userID] = FALSE] ELSE online
    /\ UNCHANGED <<stats, mainPc, WSHub, written, Clients, mu, hubPc, hubRows, hubMsg, Send, closes, pc, wp,
                   selfUnreg, sigs, contacts, members, panicked>>

\* GoogleOAuthCallback (oauth.go:175): UPDATE users SET is_online = true,
\* result and error discarded.
GoogleOAuthCallback(userID, dbOk) ==
    /\ Alive
    /\ Count(1 + Failures(<<dbOk>>))
    /\ online' = IF dbOk THEN [online EXCEPT ![userID] = TRUE] ELSE online
    /\ UNCHANGED <<stats, mainPc, WSHub, written, Clients, mu, hubPc, hubRows, hubMsg, Send, closes, pc, wp,
                   selfUnreg, sigs, contacts, members, panicked>>

\* Runs in which the Hub only ever processes Register and Unregister
\* requests of connections: no caller of the broadcast API or of SendMessage,
\* no inbound frame.
NextRegistry ==
    \/ \E c \in Conns : Connect(c)
    \/ \E c \in Conns : HubRunRegister(c)
    \/ \E c \in Conns : HubRunUnregister(c)
    \/ HubPresenceRow
    \/ \E c \in Conns : ReadFail(c)
    \/ \E c \in Conns : WriteClosed(c)
    \/ \E c \in Conns : PingFail(c)
    \/ \E row \in ContactRows : AddContact(row)

SpecRegistry == Init /\ [][NextRegistry]_vars

\* Runs of the registry in which a Client may be unregistered twice.
NextDuplicate ==
    \/ NextRegistry
    \/ \E c \in Conns : HubRunUnregisterAgain(c)

SpecDuplicate == Init /\ [][NextDuplicate]_vars

\* Runs of the registry together with the authentication handlers.
NextAuth ==
    \/ NextRegistry
    \/ \E u \in Users, dbOk \in BOOLEAN : Login(u, dbOk)
    \/ \E u \in Users, dbOk \in BOOLEAN : Logout(u, dbOk)
    \/ \E u \in Users, dbOk \in BOOLEAN : GoogleOAuthCallback(u, dbOk)

SpecAuth == Init /\ [][NextAuth]_vars

\* Runs in which the group rosters change between the group broadcasts.
NextRoster ==
    \/ \E c \in Conns : Connect(c)
    \/ \E c \in Conns : HubRunRegister(c)
    \/ \E g \in Groups, u \in Users : AddGroupMembers(g, u)
    \/ \E g \in Groups, u \in Users : RemoveGroupMember(g, u)
    \/ \E g \in Groups, m \in ToGroupMessages, x \in Senders, queryOk \in BOOLEAN :
         \E rows \in QueryRows(g, queryOk) :
            BroadcastToGroup(g, m, x, queryOk, rows)

SpecRoster == Init /\ [][NextRoster]_vars

(* ------------------ process start and the REST handlers ---------------- *)

\* main up to routes.SetupRoutes(app) (part_000:17-41): environment, store,
\* Fiber app, middleware, routes.  routes.InitWebSocket (routes.go:12-14),
\* the only caller of handlers.InitWebSocket, is not called here or anywhere
\* else, so WSHub keeps its zero value.
MainSetupRoutes ==
    /\ panicked = NoPanic
    /\ mainPc = "start"
    /\ mainPc' = "routes"
    /\ UNCHANGED <<stats, Clients, mu, hubPc, hubRows, hubMsg, Send, closes, pc, wp,
                   selfUnreg, sigs, online, contacts, members, panicked,
                   WSHub, written, events>>

\* main, app.Listen (part_000:50-52): requests are served from here on.
MainListen ==
    /\ panicked = NoPanic
    /\ mainPc = "routes"
    /\ mainPc' = "listening"
    /\ UNCHANGED <<stats, Clients, mu, hubPc, hubRows, hubMsg, Send, closes, pc, wp,
                   selfUnreg, sigs, online, contacts, members, panicked,
                   WSHub, written, events>>

\* WSMessage{Type, Payload: GroupMessagePayload{...}} of group.go:733-744 and
\* 749-760.
GroupMessage(type, groupID, senderID) ==
    WSMessage(type, GroupMessagePayload(groupID, senderID))

\* A confirmation built with the type of the broadcast
\* (EventGroupMessageReceived): the fault C23 excludes.
ConfirmType_Received == EventGroupMessageReceived

\* confirmMessage.Type (group.go:750).
ConfirmType == EventGroupMessageSent

\* SendGroupMessage, group.go:746 then 761: BroadcastToGroup without the
\* sender, then BroadcastToUser of the confirmation on the buffers the first
\* call left; a panic of the first call ends the handler.
GroupMessageResult(groupID, userID, rows, queryOk) ==
    LET group == ToGroup(rows, GroupMessage(EventGroupMessageReceived, groupID, userID),
                         userID, queryOk)
    IN IF group.panic \/ Clients[userID] = NoClient
       THEN group
       ELSE PushEach(<<userID>>,
                     Marshal(GroupMessage(ConfirmType, groupID, userID)).data,
                     group.send)

\* SendGroupMessage (group.go:673-767) with a well-formed body: 403 when the
\* caller is not a member, 500 when the INSERT fails, and the two broadcasts
\* only `if WSHub != nil`.  Both broadcasts take RLock(), which waits while
\* the Hub holds Lock().
SendGroupMessage(groupID, userID, insertOk, queryOk, rows) ==
    /\ Alive
    /\ Count(1 + Failures(<<insertOk, queryOk>>))
    /\ IF userID \notin GroupMembers(groupID) \/ ~insertOk \/ WSHub = NoHub
       THEN UNCHANGED <<Send, panicked>>
       ELSE /\ mu = "free"
            /\ Deliver(GroupMessageResult(groupID, userID, rows, queryOk))
    /\ UNCHANGED <<stats, Clients, mu, hubPc, hubRows, hubMsg, closes, pc, wp,
                   selfUnreg, sigs, online, contacts, members, mainPc, WSHub,
                   written>>

\* An IsUserOnline that answers from users.is_online in the store instead of
\* the registry: the fault C31 excludes.
IsUserOnline_FromStore(userID) == online[userID]

\* IsUserOnline (part_001:242-248): `_, ok := h.Clients[userID]; return ok`.
IsUserOnline(userID) == Clients[userID] # NoClient

\* GetOnlineUsers (part_001:251-261): the keys of h.Clients appended in the
\* order `range` yields them, which Go leaves unspecified: every order is a
\* possible result.
GetOnlineUsers == RowOrders({userID \in Users : Clients[userID] # NoClient})

\* GetOnlineCount (part_001:264-269): len(h.Clients).
GetOnlineCount == Cardinality({userID \in DOMAIN Clients : Clients[userID] # NoClient})

\* GetWebSocketStats (chat.go:208-223): 503 when WSHub is nil, else
\* GetOnlineCount and GetOnlineUsers, each under RLock() (part_001:251-269).
GetWebSocketStats ==
    /\ Alive
    /\ WSHub # NoHub => mu = "free"
    /\ Count(1)
    /\ IF WSHub = NoHub
       THEN stats' = StatsResponse(503, 0, <<>>)
       ELSE \E ids \in GetOnlineUsers :
               stats' = StatsResponse(200, GetOnlineCount, ids)
    /\ UNCHANGED <<Clients, mu, hubPc, hubRows, hubMsg, Send, closes, pc, wp,
                   selfUnreg, sigs, online, contacts, members, panicked,
                   mainPc, WSHub, written>>

\* The process from the entry of main: its two steps, then the handlers the
\* routes serve.
NextMain ==
    \/ MainSetupRoutes
    \/ MainListen
    \/ \E c \in Conns : Connect(c)
    \/ \E row \in ContactRows : AddContact(row)
    \/ \E g \in Groups, u \in Users : AddGroupMembers(g, u)
    \/ \E g \in Groups, u \in Users : RemoveGroupMember(g, u)
    \/ \E u \in Users, dbOk \in BOOLEAN : Login(u, dbOk)
    \/ \E u \in Users, dbOk \in BOOLEAN : Logout(u, dbOk)
    \/ \E g \in Groups, u \in Users, insertOk, queryOk \in BOOLEAN :
         \E rows \in QueryRows(g, queryOk) :
            SendGroupMessage(g, u, insertOk, queryOk, rows)
    \/ GetWebSocketStats

SpecMain == InitMain /\ [][NextMain]_vars

\* Group chat alone: connections register and drain their buffers while
\* members and others post group messages through the REST handler.
NextGroupChat ==
    \/ \E c \in Conns : Connect(c)
    \/ \E c \in Conns : HubRunRegister(c)
    \/ \E c \in Conns, writeOk \in BOOLEAN : WriteNext(c, writeOk)
    \/ \E g \in Groups, u \in Users, insertOk, queryOk \in BOOLEAN :
         \E rows \in QueryRows(g, queryOk) :
            SendGroupMessage(g, u, insertOk, queryOk, rows)

SpecGroupChat == Init /\ [][NextGroupChat]_vars

\* The registry and its readers: Register and Unregister requests of
\* connections, the three broadcasts and the registry queries of
\* GetWebSocketStats.
NextLocks ==
    \/ NextRegistry
    \/ \E u \in Users, m \in ToUserMessages : BroadcastToUser(u, m)
    \/ \E ids \in UserLists, m \in ToUsersMessages : BroadcastToUsers(ids, m)
    \/ \E g \in Groups, m \in ToGroupMessages, x \in Senders, queryOk \in BOOLEAN :
         \E rows \in QueryRows(g, queryOk) :
            BroadcastToGroup(g, m, x, queryOk, rows)
    \/ GetWebSocketStats

SpecLocks == Init /\ [][NextLocks]_vars

\* Typing relays while group rosters change: connections register and send
\* frames, members join and leave.
NextTyping ==
    \/ \E c \in Conns : Connect(c)
    \/ \E c \in Conns : HubRunRegister(c)
    \/ \E g \in Groups, u \in Users : AddGroupMembers(g, u)
    \/ \E g \in Groups, u \in Users : RemoveGroupMember(g, u)
    \/ \E c \in Conns, f \in Frames, queryOk \in BOOLEAN :
         \E rows \in QueryRows(f.groupId, queryOk) :
            Inbound(c, f, queryOk, rows)

SpecTyping == Init /\ [][NextTyping]_vars

(* ------------------------------- claims -------------------------------- *)

\* Connection c is the registry's entry for its user id.
Registered(c) == Clients[UserOf(c)] = c

\* The buffer of c gained exactly the one message data in this step.
Pushed(c, data) == Send'[c] = Append(Send[c], data)

\* The buffer of c has no room left.
Full(c) == Len(Send[c]) >= SendCap

\* C1: after any sequence of Register and Unregister requests every registry
\* entry is a Client of that user id (one per user id, the registry being a
\* map), and processing Register(c2) while another Client c1 of the same user
\* id is in the registry leaves c2 as the entry and c1's Send closed.
C1_RegisterReplaces ==
    /\ [](\A u \in Users : Clients[u] # NoClient =>
            /\ Clients[u] \in Conns
            /\ UserOf(Clients[u]) = u)
    /\ [][\A c2 \in Conns : HubRunRegister(c2) =>
            /\ Clients'[UserOf(c2)] = c2
            /\ \A c1 \in Conns \ {c2} : Registered(c1) /\ UserOf(c1) = UserOf(c2) =>
                 /\ closes'[c1] = 1
                 /\ ~Registered(c1)']_vars

\* C1 witness: a1 was replaced by a2 (a1's ReadPump has not failed, so no
\* Unregister closed it).
C1_Witness ==
    /\ pc["a1"] = "reading"
    /\ closes["a1"] = 1
    /\ Clients["A"] = "a2"
    /\ closes["a2"] = 0

\* C2: processing Unregister(c1) while the registry entry of c1's user id is
\* another Client c2 leaves c2 in the registry with its Send open.
C2_UnregisterOnlyOwnEntry ==
    [][\A c1 \in Conns : HubRunUnregister(c1) =>
         \A c2 \in Conns \ {c1} : Registered(c2) /\ UserOf(c2) = UserOf(c1) =>
            /\ Clients'[UserOf(c2)] = c2
            /\ closes'[c2] = 0]_vars

\* C3: no Client's Send is ever closed a second time.
C3_NoSecondClose == \A c \in Conns : closes[c] <= 1

\* Contacts the presence loop still owes the envelope: in the registry, with
\* room in the buffer, not yet visited.
PresenceOwed ==
    {k \in hubRows : Clients[k] # NoClient /\ ~Full(Clients[k])}

\* C4: the processing of a Register or Unregister never ends, or stops for
\* good, with a registered contact that has room still owed the user-online /
\* user-offline envelope.
C4_PresenceReachesContacts ==
    hubPc \in {"select", "blocked"} => PresenceOwed = {}

\* C5 as stated: BroadcastToUser(U, e), e encodable, pushes e to U's buffer
\* exactly when U is in the registry, and changes no state when U is not.
C5_ToUserIffRegistered ==
    [][\A u \in Users, m \in ToUserMessages :
         (BroadcastToUser(u, m) /\ ~Marshal(m).err) =>
            IF Clients[u] = NoClient
            THEN UNCHANGED <<Send, Clients, closes, panicked>>
            ELSE Pushed(Clients[u], Marshal(m).data)]_vars

\* C5: BroadcastToUser(U, e) pushes e once to the buffer of U's registry entry
\* exactly when U is in the registry, e encodes, and that buffer is open and
\* not full; a closed buffer makes the send panic; no other buffer, the
\* registry and the closes never change, and nothing changes when U is absent.
C5_ToUserPushes ==
    [][\A u \in Users, m \in ToUserMessages : BroadcastToUser(u, m) =>
         LET c == Clients[u]
         IN /\ UNCHANGED <<Clients, closes>>
            /\ \A d \in Conns \ {c} : Send'[d] = Send[d]
            /\ c = NoClient => UNCHANGED <<Send, panicked>>
            /\ c # NoClient =>
                 /\ Pushed(c, Marshal(m).data) <=>
                      (~Marshal(m).err /\ ~Closed(c) /\ ~Full(c))
                 /\ Pushed(c, Marshal(m).data) \/ Send'[c] = Send[c]
                 /\ (panicked' = SendOnClosed) <=>
                      (~Marshal(m).err /\ Closed(c))]_vars

\* Buffer of c holds a message of the given event type.
Holds(c, type) == \E i \in 1..Len(Send[c]) : Send[c][i][1] = type

\* C5 witness: a registered Client holds the confirmation that only
\* BroadcastToUser carries.
C5_Witness == \E c \in Conns : Registered(c) /\ Holds(c, EventGroupMessageSent)

\* Registered Clients of the members of group g other than x.
GroupTargets(g, x) ==
    {c \in Conns : Registered(c) /\ UserOf(c) \in GroupMembers(g) \ {x}}

\* C6 as stated: BroadcastToGroup(G, e, S), query and encoding succeeding,
\* pushes e exactly once to every registered member of G other than S, and to
\* no other buffer.
C6_ToGroupEveryMember ==
    [][\A g \in Groups, m \in ToGroupMessages, x \in Senders :
         \A rows \in QueryRows(g, TRUE) :
           (BroadcastToGroup(g, m, x, TRUE, rows) /\ ~Marshal(m).err) =>
              \A c \in Conns : IF c \in GroupTargets(g, x)
                               THEN Pushed(c, Marshal(m).data)
                               ELSE Send'[c] = Send[c]]_vars

\* C6: BroadcastToGroup(G, e, S) pushes e at most once per buffer, and only,
\* the membership query and the encoding having succeeded, to registered
\* members of G other than S whose buffer is open and not full; it reaches
\* every such member unless a registered member other than S has a closed
\* buffer, in which case (and only then) the send panics.
C6_ToGroupPushes ==
    [][\A g \in Groups, m \in ToGroupMessages, x \in Senders, queryOk \in BOOLEAN :
         \A rows \in QueryRows(g, queryOk) :
           BroadcastToGroup(g, m, x, queryOk, rows) =>
              LET data == Marshal(m).data
                  ok   == queryOk /\ ~Marshal(m).err
                  cut  == \E c \in GroupTargets(g, x) : Closed(c)
              IN /\ UNCHANGED <<Clients, closes>>
                 /\ \A c \in Conns : Send'[c] = Send[c] \/ Pushed(c, data)
                 /\ \A c \in Conns : Pushed(c, data) =>
                       ok /\ c \in GroupTargets(g, x) /\ ~Closed(c) /\ ~Full(c)
                 /\ (ok /\ ~cut) =>
                       \A c \in GroupTargets(g, x) : ~Full(c) => Pushed(c, data)
                 /\ (panicked' = SendOnClosed) <=> (ok /\ cut)]_vars

\* C6 witness: the registered Clients of both members of g1 hold the group
\* message.
C6_Witness ==
    /\ Clients["A"] # NoClient
    /\ Holds(Clients["A"], EventGroupMessageReceived)
    /\ Registered("b1")
    /\ Holds("b1", EventGroupMessageReceived)

\* C7: once SendMessage overflowed on a Client, that Client's Send has been
\* closed exactly once and SendMessage has signalled exactly one Unregister
\* for it, whatever the Hub has processed since.
C7_OverflowClosesOnce ==
    \A c \in Conns : sigs[c].SendMessage > 0 =>
        /\ closes[c] = 1
        /\ sigs[c].SendMessage = 1

\* C8: the ReadPump and the WritePump of one connection send Unregister to the
\* Hub at most once between them, in every interleaving of their failures.
C8_OneUnregisterSignal ==
    \A c \in Conns : sigs[c].ReadPump + sigs[c].WritePump <= 1

\* C8 witness: both pumps of a connection have terminated, the WritePump on a
\* failure of its own write or ping (the buffer was never closed by then).
C8_Witness ==
    \E c \in Conns :
        /\ wp[c] = "done"
        /\ pc[c] \in {"unregistering", "closed"}
        /\ sigs[c].ReadPump = 1
        /\ closes[c] = 0

\* C9: with A and B contacts of each other and the registration of both
\* requested, the Hub never stops for good: it completes both registrations
\* and leaves the lock free for the relay of A's typing frame to B's buffer.
C9_TypingReachesContact ==
    (/\ <<"A", "B">> \in contacts
     /\ pc["a1"] # "init"
     /\ pc["b1"] # "init"
     /\ hubPc = "blocked")
    => (Registered("a1") /\ Registered("b1") /\ mu = "free")

\* The elements of a sequence.
Range(seq) == {seq[i] : i \in 1..Len(seq)}

\* The registered Clients a broadcast to these user ids addresses.
Recipients(userIDs) == {c \in Conns : Registered(c) /\ UserOf(c) \in userIDs}

\* C10: a Hub-initiated broadcast all of whose recipients have a full buffer
\* drops the push and changes nothing else: buffers, closes and registry are
\* unchanged and the process goes on.
C10_FullBufferDrops ==
    [][/\ \A u \in Users, m \in ToUserMessages :
            (BroadcastToUser(u, m) /\ Recipients({u}) # {}
               /\ \A c \in Recipients({u}) : Full(c))
            => UNCHANGED <<Send, closes, Clients, panicked>>
       /\ \A userIDs \in UserLists, m \in ToUsersMessages :
            (BroadcastToUsers(userIDs, m) /\ Recipients(Range(userIDs)) # {}
               /\ \A c \in Recipients(Range(userIDs)) : Full(c))
            => UNCHANGED <<Send, closes, Clients, panicked>>
       /\ \A g \in Groups, m \in ToGroupMessages, x \in Senders :
            \A rows \in QueryRows(g, TRUE) :
               (BroadcastToGroup(g, m, x, TRUE, rows) /\ GroupTargets(g, x) # {}
                  /\ \A c \in GroupTargets(g, x) : Full(c))
               => UNCHANGED <<Send, closes, Clients, panicked>>]_vars

\* C11: a caller of BroadcastToUser, BroadcastToUsers or BroadcastToGroup is
\* never blocked for good: in no state has the Hub stopped for ever while a
\* call, which the caller is still able to make, cannot take its read lock.
C11_CallersReturn ==
    (hubPc = "blocked" /\ Alive /\ events < MaxEvents) =>
        /\ ENABLED (\E u \in Users, m \in ToUserMessages : BroadcastToUser(u, m))
        /\ ENABLED (\E ids \in UserLists, m \in ToUsersMessages : BroadcastToUsers(ids, m))
        /\ ENABLED (\E g \in Groups, m \in ToGroupMessages, x \in Senders :
                      \E rows \in QueryRows(g, TRUE) :
                         BroadcastToGroup(g, m, x, TRUE, rows))

\* C12: processing Unregister(c) again after an earlier Unregister(c) was
\* processed changes neither the registry, nor any buffer or its open/closed
\* state, nor the store, starts no presence broadcast, and the process goes on.
C12_UnregisterIdempotent ==
    [][\A c \in Conns : HubRunUnregisterAgain(c) =>
         UNCHANGED <<Clients, Send, closes, online, mu, hubPc, hubRows, hubMsg,
                     panicked>>]_vars

\* C13: the online flag of a user in the store changes only in a step in
\* which the Hub processes a Register or an Unregister of a Client of that
\* user; no other operation of the program writes it.
C13_OnlineOnlyByHub ==
    [][\A u \in Users : online'[u] # online[u] =>
         \E c \in Conns :
            /\ UserOf(c) = u
            /\ HubRunRegister(c) \/ HubRunUnregister(c) \/ HubRunSelfUnregister(c)]_vars

\* C14: a connection whose loop hit a terminal failure reaches Closed; so it
\* is never left with its ReadPump waiting to hand its Unregister to a Hub
\* that has stopped for ever, nor with a loop that has not returned once the
\* Hub has stopped.
C14_FailedConnectionCloses ==
    \A c \in Conns :
        (hubPc = "blocked" /\ (pc[c] = "unregistering" \/ wp[c] = "done"))
            => (pc[c] = "closed" /\ wp[c] = "done")

\* The inbound event types the Client relays.
TypingTypes == {EventTypingStart, EventTypingStop}

\* C15: an inbound typing-start or typing-stop with a group id has exactly the
\* effect of one BroadcastToGroup of the typing envelope to that group
\* excluding the Client's own user id, and touches no buffer outside the
\* group even when a chat id is present; with only a chat id it has exactly
\* the effect of one send to that peer id; with neither it has no effect.
C15_TypingRouting ==
    [][\A c \in Conns, f \in Frames, queryOk \in BOOLEAN :
         \A rows \in QueryRows(f.groupId, queryOk) :
           (Inbound(c, f, queryOk, rows) /\ f.type \in TypingTypes) =>
              IF f.groupId # ""
              THEN /\ Deliver(ToGroup(rows, TypingMessage(c, f), UserOf(c), queryOk))
                   /\ \A d \in Conns : Send'[d] # Send[d] =>
                         /\ f.groupId \in Groups
                         /\ UserOf(d) \in GroupMembers(f.groupId) \ {UserOf(c)}
              ELSE IF f.chatId # ""
              THEN /\ Deliver(ToUsers(<<f.chatId>>, TypingMessage(c, f)))
                   /\ \A d \in Conns : Send'[d] # Send[d] => d = Clients[f.chatId]
              ELSE UNCHANGED <<Send, panicked>>]_vars

\* C15 witness: A's connection relayed a typing-stop carrying both a chat id
\* (A itself) and the group g1: B's buffer holds it, A's own holds nothing.
C15_Witness ==
    /\ Registered("a1")
    /\ Send["a1"] = <<>>
    /\ Registered("b1")
    /\ Send["b1"] =
          <<Marshal(TypingMessage("a1", Frame(EventTypingStop, "A", "g1", ""))).data>>

\* The userId values a peer may put in the payload of a frame.
WireUserIds == Users \cup {""}

\* C16: every envelope an inbound frame makes the Client relay carries the
\* user id of that Client, and the step is the same whatever userId the frame
\* carries on the wire.
C16_TypingUserIdFromClient ==
    [][\A c \in Conns, f \in Frames, queryOk \in BOOLEAN :
         \A rows \in QueryRows(f.groupId, queryOk) :
           Inbound(c, f, queryOk, rows) =>
              /\ \A d \in Conns : Send'[d] # Send[d] =>
                    /\ Len(Send'[d]) = Len(Send[d]) + 1
                    /\ Send'[d][Len(Send'[d])][2].userId = UserOf(c)
              /\ \A w \in WireUserIds :
                    Inbound(c, [f EXCEPT !.userId = w], queryOk, rows)]_vars

\* C16 witness: B's buffer holds the typing-start relayed for A's connection,
\* user id A, as the frame that named user C on the wire produces it.
C16_Witness ==
    /\ Registered("a1")
    /\ Registered("b1")
    /\ Send["b1"] =
          <<Marshal(TypingMessage("a1", Frame(EventTypingStart, "B", "", "C"))).data>>
    /\ Send["b1"][1][2].userId = "A"

\* C17: an inbound frame that does not decode, or whose type is not
\* typing-start or typing-stop, changes no buffer, nothing of the registry or
\* of the Hub, and leaves the ReadPump reading on the same open connection.
C17_OtherFramesIgnored ==
    [][\A c \in Conns, f \in Frames, queryOk \in BOOLEAN :
         \A rows \in QueryRows(f.groupId, queryOk) :
           (Inbound(c, f, queryOk, rows) /\ f.type \notin TypingTypes) =>
              /\ UNCHANGED <<Send, Clients, closes, mu, hubPc, hubRows, hubMsg,
                             online, selfUnreg, sigs, panicked>>
              /\ pc'[c] = "reading"
              /\ SocketOpen(c)']_vars

\* C17 witness: A's connection is reading, B is registered with room and a
\* member of g1, a message-sent frame naming B and g1 can be read, and the
\* third event of the run has left every buffer empty.
C17_Witness ==
    /\ Registered("a1") /\ pc["a1"] = "reading" /\ SocketOpen("a1")
    /\ Registered("b1") /\ ~Closed("b1")
    /\ \A c \in Conns : Send[c] = <<>>
    /\ events = 3
    /\ ENABLED Inbound("a1", Frame("message_sent", "B", "g1", ""), TRUE, <<"A", "B">>)

\* C18: BroadcastToUsers(ids, e) treats each id on its own: the buffer of an
\* id of the list gains e exactly when the id is in the registry with room in
\* its buffer, whatever the state of the other ids; and a step is a
\* BroadcastToUsers([U], e) exactly when it is a BroadcastToUser(U, e).
C18_ToUsersIndependent ==
    [][/\ \A userIDs \in UserLists, m \in ToUsersMessages :
            BroadcastToUsers(userIDs, m) =>
               \A u \in Range(userIDs) :
                  IF Clients[u] # NoClient /\ ~Full(Clients[u])
                  THEN Len(Send'[Clients[u]]) > Len(Send[Clients[u]])
                  ELSE Clients[u] # NoClient => Send'[Clients[u]] = Send[Clients[u]]
       /\ \A u \in Users, m \in ToUsersMessages :
            BroadcastToUsers(<<u>>, m) <=> BroadcastToUser(u, m)]_vars

\* C19: when the store write of the online flag fails while Register(c) is
\* processed, c is the registry entry afterwards, the flag is as it was, the
\* Hub goes on, and the user-online broadcast is started for the contacts when
\* there are any; when the offline write fails while an Unregister that
\* finds an entry is processed, the entry is removed all the same.
C19_StoreFailureTolerated ==
    [][\A c \in Conns, queryOk \in BOOLEAN :
         /\ (/\ HubRunRegister(c)
             /\ registerClient(c, FALSE, queryOk)
             /\ events' = events + Failures(<<FALSE, queryOk>>))
            => /\ Clients'[UserOf(c)] = c
               /\ online' = online
               /\ panicked' = NoPanic
               /\ (queryOk /\ ContactsOf(UserOf(c)) # {}) =>
                     /\ hubPc' = "presence"
                     /\ hubRows' = ContactsOf(UserOf(c))
                     /\ hubMsg' = Marshal(PresenceMessage(UserOf(c), TRUE)).data
         /\ (/\ HubRunUnregister(c)
             /\ unregisterClient(c, FALSE, queryOk)
             /\ events' = events + Failures(<<FALSE, queryOk>>)
             /\ UnregisterFinds(c))
            => /\ Clients'[UserOf(c)] = NoClient
               /\ online' = online]_vars

\* C19 witness: a1 is the registry entry of A, the store still says A is
\* offline, and the user-online broadcast to A's contact has been started.
C19_Witness ==
    /\ Registered("a1")
    /\ ~online["A"]
    /\ hubPc = "presence"
    /\ hubRows = {"B"}

C21_SubmissionNeverWaits ==
    \A c \in Conns :
        (pc[c] \in {"registering", "unregistering"} \/ selfUnreg[c])
            => hubPc = "select"

\* C22: every execution of the connection handler finds an initialised Hub:
\* no handler reaches `WSHub.Register <- client` with WSHub nil, whether the
\* resulting panic is recovered (the connection is dropped) or ends the
\* process.
C22_HandlerFindsHub ==
    /\ panicked # NilHub
    /\ \A c \in Conns : pc[c] # "aborted"

\* The bytes a connection is owed for a group message of S to G: the
\* confirmation for S's own connection, the broadcast for the others.
GroupMessageData(c, g, S) ==
    Marshal(GroupMessage(IF UserOf(c) = S THEN EventGroupMessageSent
                         ELSE EventGroupMessageReceived, g, S)).data

\* C23 as stated: for a group message stored for member S of G, the buffer of
\* S's registered Client receives exactly one group_message_sent and the
\* buffer of every other registered member exactly one
\* group_message_received.
C23_GroupMessageEnvelopes ==
    [][\A g \in Groups, S \in Users :
         \A rows \in QueryRows(g, TRUE) :
           (SendGroupMessage(g, S, TRUE, TRUE, rows) /\ S \in members[g]) =>
              \A c \in Conns :
                 (Registered(c) /\ UserOf(c) \in members[g])
                    => Pushed(c, GroupMessageData(c, g, S))]_vars

\* C23: a SendGroupMessage of S for G adds to a buffer nothing or exactly one
\* envelope, group_message_sent on S's own Client and group_message_received
\* on any other; when no send panics, the buffer that gets it is that of
\* every registered Client, open and not full, of S itself and (the roster
\* query succeeding) of the other members of G, provided S is a member,
\* the message was stored and the Hub exists.
C23_GroupMessagePushes ==
    [][\A g \in Groups, S \in Users, insertOk, queryOk \in BOOLEAN :
         \A rows \in QueryRows(g, queryOk) :
           SendGroupMessage(g, S, insertOk, queryOk, rows) =>
              \A c \in Conns :
                 LET due == /\ S \in members[g] /\ insertOk /\ WSHub # NoHub
                            /\ Registered(c) /\ ~Full(c) /\ ~Closed(c)
                            /\ \/ UserOf(c) = S
                               \/ queryOk /\ UserOf(c) \in members[g]
                 IN /\ Send'[c] = Send[c] \/ Pushed(c, GroupMessageData(c, g, S))
                    /\ panicked' = panicked
                          => (due <=> Pushed(c, GroupMessageData(c, g, S)))]_vars

\* C23 witness: after a group message of A to g1, A's Client holds the
\* confirmation and not the broadcast, B's the broadcast and not the
\* confirmation.
C23_Witness ==
    /\ Registered("a1") /\ Registered("b1")
    /\ Holds("a1", EventGroupMessageSent) /\ ~Holds("a1", EventGroupMessageReceived)
    /\ Holds("b1", EventGroupMessageReceived) /\ ~Holds("b1", EventGroupMessageSent)

\* C24: the processing of a Register or Unregister request always ends and
\* releases the exclusive lock: the Hub never waits, in the read lock of the
\* presence broadcast, for the lock its own task holds.
C24_HubReleasesLock == hubPc # "blocked"

\* C25: every Client in the registry has an open outbound buffer, and no
\* broadcast pushes into a closed buffer.
C25_RegisteredBufferOpen ==
    /\ \A c \in Conns : Registered(c) => ~Closed(c)
    /\ panicked # SendOnClosed

\* C26: a connection whose inbound loop has exited has sent exactly one
\* Unregister signal from its ReadPump, one that had not exited none; the
\* ReadPump closes the socket only after that signal; the WritePump never
\* sends one.
C26_ReadPumpSignalsThenCloses ==
    \A c \in Conns :
        /\ sigs[c].WritePump = 0
        /\ sigs[c].ReadPump = IF pc[c] \in {"unregistering", "closed"} THEN 1 ELSE 0
        /\ pc[c] = "closed" => sigs[c].ReadPump = 1

\* C26 witness: both loops of a connection have exited, the WritePump first
\* on a failed write, and the only signal is the ReadPump's.
C26_Witness ==
    \E c \in Conns :
        /\ pc[c] = "closed"
        /\ wp[c] = "done"
        /\ written[c] # NoFrame /\ written[c] # CloseFrame
        /\ sigs[c] = [ReadPump |-> 1, WritePump |-> 0, SendMessage |-> 0]

\* C27: a running WritePump ends only on a failed socket write or on finding
\* its buffer closed and drained, and on each of these it does end; a
\* successful write leaves it running; an ended WritePump has closed the
\* socket; when it ends on the closed buffer, the close frame is the last
\* frame it wrote.
C27_WritePumpTermination ==
    [][\A c \in Conns :
         /\ (wp[c] = "running" /\ wp'[c] = "done") =>
               \/ Closed(c) /\ Send[c] = <<>> /\ written'[c] = CloseFrame
               \/ events' = events + 1 /\ written'[c] # CloseFrame
         /\ WriteClosed(c) => wp'[c] = "done" /\ written'[c] = CloseFrame
         /\ WriteNext(c, FALSE) => wp'[c] = "done"
         /\ PingFail(c) => wp'[c] = "done"
         /\ WriteNext(c, TRUE) => wp'[c] = "running" /\ written'[c] = Head(Send[c])
         /\ wp'[c] = "done" => ~SocketOpen(c)']_vars

\* C27 witness: one WritePump has ended on its closed buffer with the close
\* frame written, another on a failed ping before any message.
C27_Witness ==
    \E c, d \in Conns :
        /\ wp[c] = "done" /\ written[c] = CloseFrame /\ Closed(c)
        /\ wp[d] = "done" /\ written[d] = NoFrame /\ ~Closed(d)

\* C28: a buffer changes only by gaining envelopes after those it holds or by
\* losing its oldest one, and the envelope handed to the socket is always
\* that oldest one, removed as it is written: per recipient envelopes are
\* written in the order pushed, each at most once.
C28_WrittenInPushOrder ==
    [][\A c \in Conns :
         /\ Send'[c] # Send[c] =>
               \/ /\ Send[c] # <<>>
                  /\ Send'[c] = Tail(Send[c])
                  /\ written'[c] = Head(Send[c])
               \/ /\ Len(Send'[c]) > Len(Send[c])
                  /\ SubSeq(Send'[c], 1, Len(Send[c])) = Send[c]
                  /\ written'[c] = written[c]
         /\ written'[c] # written[c] =>
               \/ written'[c] = CloseFrame /\ Send[c] = <<>>
               \/ /\ Send[c] # <<>>
                  /\ written'[c] = Head(Send[c])
                  /\ Send'[c] = Tail(Send[c])]_vars

\* C28 witness: of two different envelopes pushed to one connection the
\* first has been written and the second is the next in the buffer.
C28_Witness ==
    \E c \in Conns :
        /\ written[c] \notin {NoFrame, CloseFrame}
        /\ Send[c] # <<>>
        /\ Head(Send[c]) # written[c]

\* C29: no outbound buffer ever holds more messages than its capacity,
\* whatever broadcasts, presence events and SendMessage calls target it.
C29_BufferWithinCapacity == \A c \in Conns : Len(Send[c]) <= SendCap

\* C29 witness: an open buffer is full after more envelopes than its capacity
\* were pushed to it, the first of them written to the socket meanwhile.
C29_Witness ==
    \E c \in Conns :
        /\ Registered(c) /\ ~Closed(c)
        /\ Len(Send[c]) = SendCap
        /\ written[c] \notin {NoFrame, CloseFrame}

\* C30: the Hub holds the exclusive lock exactly while it processes a
\* request; it takes a request, and changes the registry, only from its
\* select with the lock free, so one request is processed at a time; and
\* every step that reads the registry (the three broadcasts once they reach
\* their loop, the registry queries) is taken with the lock free, never while
\* a Register or Unregister is in process, and no buffer gains an envelope
\* while the lock is held.
C30_RegistryExclusion ==
    [][/\ (mu = "hub") <=> (hubPc \in {"presence", "blocked"})
       /\ (Clients' # Clients \/ (hubPc = "select" /\ hubPc' # "select"))
             => (mu = "free" /\ hubPc = "select")
       /\ \A c \in Conns :
             (pc[c] \in {"registering", "unregistering"} /\ pc'[c] # pc[c])
                => (mu = "free" /\ hubPc = "select")
       /\ \A u \in Users, m \in ToUserMessages :
             BroadcastToUser(u, m) => mu = "free"
       /\ \A ids \in UserLists, m \in ToUsersMessages :
             BroadcastToUsers(ids, m) => mu = "free"
       /\ \A g \in Groups, m \in ToGroupMessages, x \in Senders :
             \A rows \in QueryRows(g, TRUE) :
                (BroadcastToGroup(g, m, x, TRUE, rows) /\ ~Marshal(m).err)
                   => mu = "free"
       /\ GetWebSocketStats => mu = "free"
       /\ \A c \in Conns : Len(Send'[c]) > Len(Send[c]) => mu = "free"]_vars

\* C30 witness: the Hub is inside the processing of a request, holding the
\* lock, while a registered Client holds an envelope a broadcast pushed
\* before the request was taken.
C30_Witness ==
    /\ mu = "hub"
    /\ hubPc = "presence"
    /\ \E c \in Conns : Registered(c) /\ Send[c] # <<>>

\* C31: the registry queries change neither the registry nor any buffer nor
\* the store, and evaluated in one state they agree: the list GetOnlineUsers
\* returned is free of duplicates, the count GetOnlineCount returned is its
\* length, and IsUserOnline(u) holds in that state exactly for the user ids
\* listed.
C31_QueriesAgree ==
    [][GetWebSocketStats =>
         /\ UNCHANGED <<Clients, Send, closes, online, contacts, members, mu,
                        panicked, written>>
         /\ stats'.status = 200
         /\ \A i, j \in 1..Len(stats'.userIds) :
               stats'.userIds[i] = stats'.userIds[j] => i = j
         /\ stats'.onlineUsers = Len(stats'.userIds)
         /\ \A u \in Users : IsUserOnline(u) <=> u \in Range(stats'.userIds)]_vars

\* C31 witness: the queries have answered for a registry of two users, which
\* is still the registry.
C31_Witness ==
    /\ stats.status = 200
    /\ stats.onlineUsers = 2
    /\ Registered("a1") /\ Registered("b1")

\* C32: a BroadcastToGroup whose group_members query fails returns normally,
\* also while the Hub holds its lock, pushes to no buffer, closes none, does
\* not panic and leaves the registry unchanged.
C32_FailedLookupPushesNothing ==
    [][\A g \in Groups, m \in ToGroupMessages, x \in Senders :
         /\ BroadcastToGroup(g, m, x, FALSE, <<>>)
               => UNCHANGED <<Send, closes, Clients, panicked, mu, hubPc>>
         /\ (Alive /\ events + 2 <= MaxEvents)
               => ENABLED BroadcastToGroup(g, m, x, FALSE, <<>>)]_vars

\* C32 witness: with B's Client registered and room in its buffer, and the
\* Hub holding its lock, the event budget is spent and no buffer holds
\* anything: the broadcasts made, the failed lookups among them, pushed
\* nothing.
C32_Witness ==
    /\ Registered("b1") /\ "B" \in members["g1"]
    /\ mu = "hub"
    /\ events = MaxEvents
    /\ \A c \in Conns :
          /\ Send[c] = <<>>
          /\ written[c] = NoFrame
          /\ (c # "b1" => pc[c] = "init")

\* C33: a live connection that is the most recently registered one of its
\* user (in its inbound loop, socket open, buffer not closed by a
\* replacement) is the registry entry of that user: the Unregister of a
\* connection it replaced does not take the user out of the registry.
C33_LiveNewestStaysRegistered ==
    \A c \in Conns :
        (pc[c] = "reading" /\ SocketOpen(c) /\ ~Closed(c)) => Registered(c)

\* The presence event types.
PresenceTypes == {EventUserOnline, EventUserOffline}

C35_OutsiderTypingBlocked ==
    [][\A c \in Conns, f \in Frames, queryOk \in BOOLEAN :
         \A rows \in QueryRows(f.groupId, queryOk) :
           (/\ Inbound(c, f, queryOk, rows)
            /\ f.type \in TypingTypes
            /\ f.groupId \in Groups
            /\ UserOf(c) \notin members[f.groupId])
           => \A d \in Conns :
                 UserOf(d) \in members[f.groupId] => Send'[d] = Send[d]]_vars

\* C36: the Hub takes an Unregister of a Client only after it has taken that
\* Client's Register (the handler has left its Register send and started the
\* pumps), and while a Client's Register is pending no Unregister signal for
\* it exists.
C36_RegisterBeforeUnregister ==
    [][\A c \in Conns :
         /\ (HubRunUnregister(c) \/ HubRunSelfUnregister(c))
               => (wp[c] # "idle" /\ pc[c] \notin {"init", "registering"})
         /\ pc[c] \in {"init", "registering"}
               => /\ sigs[c] = [ReadPump |-> 0, WritePump |-> 0, SendMessage |-> 0]
                  /\ ~selfUnreg[c]
                  /\ wp[c] = "idle"]_vars

\* C36 witness: the Hub has processed the Unregister of one connection,
\* registered before, while the Register of another is pending.
C36_Witness ==
    \E c, d \in Conns :
        /\ pc[c] = "closed" /\ wp[c] # "idle" /\ sigs[c].ReadPump = 1
        /\ pc[d] = "registering"
        /\ hubPc = "select"

\* C37: closing a buffer removes nothing from it; a WritePump whose buffer is
\* closed with messages still in it goes on writing the oldest one, and
\* writes the close frame and ends only when the buffer is empty.
C37_DrainsBeforeCloseFrame ==
    [][\A c \in Conns :
         /\ closes'[c] > closes[c] => Send'[c] = Send[c]
         /\ (written'[c] = CloseFrame /\ written[c] # CloseFrame)
               => (Send[c] = <<>> /\ Send'[c] = <<>> /\ Closed(c))
         /\ (Closed(c) /\ Send[c] # <<>> /\ wp[c] = "running" /\ wp'[c] = "done")
               => events' = events + 1
         /\ (Closed(c) /\ WriteNext(c, TRUE))
               => /\ written'[c] = Head(Send[c])
                  /\ Send'[c] = Tail(Send[c])
                  /\ wp'[c] = "running"]_vars

\* C37 witness: b1's buffer was closed by SendMessage when it was full, which
\* the three events spent leave as the only history; since then the
\* WritePump, still running, has written all but the last of the messages
\* that were in it.
C37_Witness ==
    /\ Closed("b1")
    /\ sigs["b1"].SendMessage = 1
    /\ events = 3
    /\ wp["b1"] = "running"
    /\ written["b1"] \notin {NoFrame, CloseFrame}
    /\ Len(Send["b1"]) = 1

\* C38: every presence envelope the Hub builds has type user_online exactly
\* when its payload's online flag is true and user_offline exactly when it is
\* false; the one built while processing Register(c) carries c's user id and
\* the flag true, the one built while processing Unregister(c) c's user id
\* and the flag false.
C38_PresenceEnvelopeConsistent ==
    [][/\ hubMsg' # <<>> =>
            /\ hubMsg'[1] = EventUserOnline <=> hubMsg'[2].isOnline
            /\ hubMsg'[1] = EventUserOffline <=> ~hubMsg'[2].isOnline
       /\ \A c \in Conns :
            /\ (HubRunRegister(c) /\ hubMsg' # <<>>)
                  => hubMsg'[2] = PresencePayload(UserOf(c), TRUE)
            /\ ((HubRunUnregister(c) \/ HubRunSelfUnregister(c)) /\ hubMsg' # <<>>)
                  => hubMsg'[2] = PresencePayload(UserOf(c), FALSE)]_vars

\* C38 witness: the Hub, processing the Unregister of A's connection, has
\* built the user_offline envelope of A for its contact B.
C38_Witness ==
    /\ hubPc = "presence"
    /\ hubMsg = <<EventUserOffline, PresencePayload("A", FALSE)>>
    /\ hubRows = {"B"}
    /\ \E c \in Conns : UserOf(c) = "A" /\ pc[c] = "closed"

=============================================================================
